---------------------------- MODULE Spec2Model ----------------------------
(***************************************************************************)
(* Model of the Tasks integration (custom_components/tasks_integration):   *)
(* the TasksCoordinator (coordinator.py), which polls the REST endpoint    *)
(* and keeps a websocket open for change notifications, and the to-do      *)
(* entity (todo.py), which turns item updates into REST calls.             *)
(*                                                                         *)
(* The coordinator derives from the host framework's                       *)
(* DataUpdateCoordinator.  Of that base class the model uses only this:    *)
(*   - a refresh runs _async_update_data; any exception it raises is       *)
(*     logged and swallowed, and self.data keeps its previous value;       *)
(*   - the interval timer is unscheduled when a refresh starts and         *)
(*     scheduled again when it ends, provided an entity is subscribed;     *)
(*   - a refresh asked for while one is in flight starts no second one     *)
(*     (the single-flight discipline is taken from the specification,      *)
(*     section 4.3: the framework code is not part of the repository).     *)
(* The integration's setup entry point (__init__.py) is not among the      *)
(* sources; the initial refresh it performs is modelled from the           *)
(* specification's start().                                                *)
(***************************************************************************)
EXTENDS Naturals, Sequences, FiniteSets

\* ------------------------------------------------------------- bounds
\* Longest task list the remote answers with.
MaxTasks == 2
\* Websocket messages delivered in one run.
MaxMsgs == 2
\* Calls of async_shutdown in one run.
MaxShutdowns == 2
\* The remote holds at most this many tags.
MaxTags == 2
\* The project list the setup flow fetched has at most this many entries.
MaxProjects == 2

\* ------------------------------------------------------------- data
NoProject == "none"
ProjectIds == {"p1", "p2"}

\* A remote task: {id, projectId, completedAt}; completedAt is modelled by
\* its presence.  The id of the i-th task of a list is i.
TaskAt(i) ==
    [id : {i}, projectId : ProjectIds \cup {NoProject}, completedAt : BOOLEAN]

\* The task lists the remote can hold.
RemoteStates ==
    UNION {{s \in [1..n -> UNION {TaskAt(i) : i \in 1..n}] :
                \A i \in 1..n : s[i] \in TaskAt(i)} : n \in 0..MaxTasks}

\* The answers drawn for a poll of the coordinator on its own: it reads
\* projectId only and copies the rest through, so these vary projectId.
Responses ==
    {s \in RemoteStates : \A i \in DOMAIN s : ~s[i].completedAt}

\* The selections the setup flow can have stored (CONF_SELECTED_PROJECTS).
Selections == {{}, {"p1"}, {"p1", "p2"}}

VARIABLES
    selected_projects, \* self.selected_projects, fixed at construction
    data,              \* self.data["tasks"]: the cached snapshot's tasks
    hasData,           \* self.data is not None
    response,          \* tasks of the most recent 200 response
    remote,            \* the remote service's task list
    last_exception,    \* "None" | "UpdateFailed" | "TimeoutError"
    setup,             \* "constructed" | "refreshing" | "ready" | "failed"
    fetch,             \* who started the GET in flight: "none" | "first" | "timer" | "channel"
    timer,             \* the interval timer: "off" | "armed"
    listeners,         \* TRUE once the to-do entities are subscribed
    chan,              \* _connect_websocket: "created" | "connecting" | "connected"
                       \*   | "awaiting" | "backoff" | "cancelled"
    ws,                \* self._ws: "None" | "open" | "closed" (a closed socket object)
    msgs,              \* messages consumed by the channel loop
    reqs,              \* async_request_refresh calls made by the channel loop
    sd,                \* async_shutdown: "idle" | "awaiting_task" | "returned" | "raised"
    sdCalls,           \* number of async_shutdown calls so far
    sdFrom,            \* channel state at the latest async_shutdown call
    sdDone,            \* TRUE once an async_shutdown call has returned
    upd,               \* async_update_todo_item in progress
    calls,             \* REST calls issued by the latest entity operation, in order
    tags,              \* self.data["tags"]: the cached snapshot's tags
    remoteTags,        \* the remote service's tag list
    entityOp,          \* the latest create, delete or move of the entity
    projects,          \* self._projects of the config flow
    stack,             \* the activations of build_hierarchy, outermost first
    project_options,   \* project_options: the label given to each id
    flow               \* select_projects: "idle" | "building" | "form" | "RecursionError"

coordVars == <<selected_projects, data, hasData, tags, response, remote,
               last_exception, setup, fetch, timer, listeners>>
chanVars == <<chan, ws, msgs, reqs>>
sdVars == <<sd, sdCalls, sdFrom, sdDone>>
facadeVars == <<upd, calls, remoteTags, entityOp>>
flowVars == <<projects, stack, project_options, flow>>
vars == <<coordVars, chanVars, sdVars, facadeVars, flowVars>>

\* ------------------------------------------------------------- helpers
\* The interval timer as the framework leaves it at the end of a refresh.
Rescheduled == IF listeners THEN "armed" ELSE "off"

\* coordinator.py 55-58: keep the tasks whose projectId is selected.
Filter(tasks, selection) ==
    SelectSeq(tasks, LAMBDA t : t.projectId \in selection)

NoUpdate ==
    [pc |-> "idle", uid |-> 0, status |-> "none", seen |-> "none", onRemote |-> "none"]

\* No create, delete or move has been called, or an update was called since.
NoOp ==
    [name |-> "none", pc |-> "idle", uids |-> <<>>, display |-> <<>>, user |-> "",
     seen |-> <<>>, tag |-> 0, tagName |-> "", tagResult |-> "none", tagIds |-> <<>>]

Init ==
    /\ selected_projects \in Selections
    /\ data = <<>>
    /\ hasData = FALSE
    /\ response = <<>>
    /\ remote = <<>>
    /\ last_exception = "None"
    /\ setup = "constructed"
    /\ fetch = "none"
    /\ timer = "off"
    /\ listeners = FALSE
    /\ chan = "created"
    /\ ws = "None"
    /\ msgs = 0
    /\ reqs = 0
    /\ sd = "idle"
    /\ sdCalls = 0
    /\ sdFrom = "none"
    /\ sdDone = FALSE
    /\ upd = NoUpdate
    /\ calls = <<>>
    /\ tags = <<>>
    /\ remoteTags = <<>>
    /\ entityOp = NoOp
    /\ projects = <<>>
    /\ stack = <<>>
    /\ project_options = <<>>
    /\ flow = "idle"

\* ------------------------------------------------------------- refresh
\* A refresh is asked for by `by`: it starts the GET unless one is in flight.
StartOrJoin(by) ==
    /\ fetch' = IF fetch = "none" THEN by ELSE fetch
    /\ timer' = IF fetch = "none" \/ by = "timer" THEN "off" ELSE timer

\* start(): the initial refresh.
StartRefresh ==
    /\ setup = "constructed"
    /\ setup' = "refreshing"
    /\ StartOrJoin("first")
    /\ UNCHANGED <<selected_projects, data, hasData, tags, response, remote,
                   last_exception, listeners>>
    /\ UNCHANGED <<chanVars, sdVars, facadeVars>>
    /\ UNCHANGED flowVars

\* Whoever awaits the refresh resumes when it settles.
Settle(ok) ==
    /\ fetch' = "none"
    /\ timer' = Rescheduled
    /\ setup' = IF setup = "refreshing" THEN (IF ok THEN "ready" ELSE "failed")
                ELSE setup
    /\ chan' = IF chan = "awaiting" THEN "connected" ELSE chan

\* As UpdateDataOk, without the project filter.
UpdateDataOkUnfiltered(resp) ==
    /\ fetch # "none"
    /\ resp \in RemoteStates
    /\ data' = resp
    /\ hasData' = TRUE
    /\ tags' = remoteTags
    /\ response' = resp
    /\ remote' = resp
    /\ last_exception' = "None"
    /\ Settle(TRUE)
    /\ UNCHANGED <<selected_projects, listeners, ws, msgs, reqs>>
    /\ UNCHANGED <<sdVars, facadeVars>>
    /\ UNCHANGED flowVars

\* _async_update_data, status 200: the filtered snapshot replaces the cache.
UpdateDataOk(resp) ==
    /\ fetch # "none"
    /\ resp \in RemoteStates
    /\ data' = Filter(resp, selected_projects)
    /\ hasData' = TRUE
    /\ tags' = remoteTags
    /\ response' = resp
    /\ remote' = resp
    /\ last_exception' = "None"
    /\ Settle(TRUE)
    /\ UNCHANGED <<selected_projects, listeners, ws, msgs, reqs>>
    /\ UNCHANGED <<sdVars, facadeVars>>
    /\ UNCHANGED flowVars

\* As UpdateDataFail, with the cache emptied by the failure.
UpdateDataFailDropsCache(err) ==
    /\ fetch # "none"
    /\ err \in {"UpdateFailed", "TimeoutError"}
    /\ last_exception' = err
    /\ data' = <<>>
    /\ Settle(FALSE)
    /\ UNCHANGED <<selected_projects, hasData, tags, response, remote, listeners,
                   ws, msgs, reqs>>
    /\ UNCHANGED <<sdVars, facadeVars>>
    /\ UNCHANGED flowVars

\* _async_update_data fails: UpdateFailed (status # 200, aiohttp.ClientError)
\* or the 10 s timeout.  The cache is kept.
UpdateDataFail(err) ==
    /\ fetch # "none"
    /\ err \in {"UpdateFailed", "TimeoutError"}
    /\ last_exception' = err
    /\ Settle(FALSE)
    /\ UNCHANGED <<selected_projects, data, hasData, tags, response, remote, listeners,
                   ws, msgs, reqs>>
    /\ UNCHANGED <<sdVars, facadeVars>>
    /\ UNCHANGED flowVars

\* The update_interval timer fires.
TimerTick ==
    /\ timer = "armed"
    /\ StartOrJoin("timer")
    /\ UNCHANGED <<selected_projects, data, hasData, tags, response, remote,
                   last_exception, setup, listeners>>
    /\ UNCHANGED <<chanVars, sdVars, facadeVars>>
    /\ UNCHANGED flowVars

\* todo.py async_setup_entry: the entities subscribe, which schedules the timer.
AddEntities ==
    /\ setup = "ready"
    /\ ~listeners
    /\ sd = "idle"
    /\ listeners' = TRUE
    /\ timer' = "armed"
    /\ UNCHANGED <<selected_projects, data, hasData, tags, response, remote,
                   last_exception, setup, fetch>>
    /\ UNCHANGED <<chanVars, sdVars, facadeVars>>
    /\ UNCHANGED flowVars

\* ------------------------------------------------------------- channel
Messages == {"", "changed"}

\* The task created in __init__ runs: websockets.connect(uri) is awaited.
WsStart ==
    /\ chan = "created"
    /\ chan' = "connecting"
    /\ UNCHANGED <<coordVars, ws, msgs, reqs, sdVars, facadeVars>>
    /\ UNCHANGED flowVars

\* connect succeeded: self._ws = websocket.
WsConnectOk ==
    /\ chan = "connecting"
    /\ chan' = "connected"
    /\ ws' = "open"
    /\ UNCHANGED <<coordVars, msgs, reqs, sdVars, facadeVars>>
    /\ UNCHANGED flowVars

\* As WsConnectFail, with the loop left on the failure.
WsConnectFailFatal ==
    /\ chan = "connecting"
    /\ chan' = "cancelled"
    /\ ws' = "None"
    /\ UNCHANGED <<coordVars, msgs, reqs, sdVars, facadeVars>>
    /\ UNCHANGED flowVars

\* connect raised: except Exception, self._ws = None, sleep(5).
WsConnectFail ==
    /\ chan = "connecting"
    /\ chan' = "backoff"
    /\ ws' = "None"
    /\ UNCHANGED <<coordVars, msgs, reqs, sdVars, facadeVars>>
    /\ UNCHANGED flowVars

\* As OnMessage, with the request made only for a non-empty message.
OnMessageNonEmpty(msg) ==
    /\ chan = "connected"
    /\ msgs < MaxMsgs
    /\ msg \in Messages
    /\ msgs' = msgs + 1
    /\ IF msg = ""
       THEN UNCHANGED <<reqs, fetch, timer, chan>>
       ELSE /\ reqs' = reqs + 1
            /\ StartOrJoin("channel")
            /\ chan' \in IF fetch = "none" THEN {"awaiting"}
                         ELSE {"awaiting", "connected"}
    /\ UNCHANGED <<selected_projects, data, hasData, tags, response, remote,
                   last_exception, setup, listeners, ws>>
    /\ UNCHANGED <<sdVars, facadeVars>>
    /\ UNCHANGED flowVars

\* async for message in websocket: await self.async_request_refresh().
\* A request made while a GET is in flight starts none; the caller is
\* either parked until that GET settles or resumed at once.
OnMessage(msg) ==
    /\ chan = "connected"
    /\ msgs < MaxMsgs
    /\ msg \in Messages
    /\ msgs' = msgs + 1
    /\ reqs' = reqs + 1
    /\ StartOrJoin("channel")
    /\ chan' \in IF fetch = "none" THEN {"awaiting"} ELSE {"awaiting", "connected"}
    /\ UNCHANGED <<selected_projects, data, hasData, tags, response, remote,
                   last_exception, setup, listeners, ws>>
    /\ UNCHANGED <<sdVars, facadeVars>>
    /\ UNCHANGED flowVars

\* The receive raises (ConnectionClosedError): the socket is closed by the
\* async with, then except Exception: self._ws = None, sleep(5).
WsRecvError ==
    /\ chan = "connected"
    /\ chan' = "backoff"
    /\ ws' = "None"
    /\ UNCHANGED <<coordVars, msgs, reqs, sdVars, facadeVars>>
    /\ UNCHANGED flowVars

\* The peer closes the connection normally: the async for ends without an
\* exception, the async with closes the socket, and while True connects
\* again at once; self._ws still names the closed socket.
WsPeerClose ==
    /\ chan = "connected"
    /\ chan' = "connecting"
    /\ ws' = "closed"
    /\ UNCHANGED <<coordVars, msgs, reqs, sdVars, facadeVars>>
    /\ UNCHANGED flowVars

\* asyncio.sleep(5) is over: the loop connects again.
WsBackoffDone ==
    /\ chan = "backoff"
    /\ chan' = "connecting"
    /\ UNCHANGED <<coordVars, ws, msgs, reqs, sdVars, facadeVars>>
    /\ UNCHANGED flowVars

\* ------------------------------------------------------------- shutdown
\* self._ws_task.cancel(): CancelledError is raised at the await the task is
\* suspended in; except Exception does not catch it.  An open socket is
\* closed by the async with; a GET the task itself was running is abandoned.
CancelTask ==
    /\ chan' = "cancelled"
    /\ ws' = IF ws = "open" THEN "closed" ELSE ws
    /\ IF chan = "awaiting" /\ fetch = "channel"
       THEN /\ fetch' = "none"
            /\ timer' = Rescheduled
       ELSE UNCHANGED <<fetch, timer>>

\* async_shutdown up to `await self._ws_task`.  It is called once setup is
\* over, whether it succeeded or failed.
ShutdownCall ==
    /\ sd \in {"idle", "returned"}
    /\ setup \in {"ready", "failed"}
    /\ sdCalls < MaxShutdowns
    /\ sd' = "awaiting_task"
    /\ sdCalls' = sdCalls + 1
    /\ sdFrom' = chan
    /\ CancelTask
    /\ UNCHANGED <<selected_projects, data, hasData, tags, response, remote,
                   last_exception, setup, listeners, msgs, reqs, sdDone, facadeVars>>
    /\ UNCHANGED flowVars

\* As ShutdownReturn, with the CancelledError of the awaited task not caught.
ShutdownReturnUncaught ==
    /\ sd = "awaiting_task"
    /\ chan = "cancelled"
    /\ sd' = "raised"
    /\ sdDone' = TRUE
    /\ UNCHANGED <<coordVars, chanVars, sdCalls, sdFrom, facadeVars>>
    /\ UNCHANGED flowVars

\* The awaited task is done: CancelledError is caught, and
\* `if self._ws: await self._ws.close()` closes what is still open.
ShutdownReturn ==
    /\ sd = "awaiting_task"
    /\ chan = "cancelled"
    /\ sd' = "returned"
    /\ sdDone' = TRUE
    /\ ws' = IF ws = "open" THEN "closed" ELSE ws
    /\ UNCHANGED <<coordVars, chan, msgs, reqs, sdCalls, sdFrom, facadeVars>>
    /\ UNCHANGED flowVars

\* ------------------------------------------------------------- to-do entity
Statuses == {"completed", "needs_action"}
HttpResults == {"200", "500", "error"}

\* next((t for t in tasks if t["id"] == uid), None): the first match.
FindTask(tasks, uid) ==
    LET idx == {i \in DOMAIN tasks : tasks[i].id = uid}
    IN  IF idx = {} THEN <<>>
        ELSE <<tasks[CHOOSE i \in idx : \A j \in idx : i <= j]>>

\* As CompletionCall, without the look at completedAt.
CompletionCallUnchecked(tasks, uid, status) ==
    LET task == FindTask(tasks, uid)
    IN  IF task = <<>> THEN "none"
        ELSE IF status = "completed" THEN "complete" ELSE "uncomplete"

\* As CompletionCall, with the test of completedAt inverted.
CompletionCallInverted(tasks, uid, status) ==
    LET task == FindTask(tasks, uid)
    IN  IF status = "completed"
        THEN IF task # <<>> /\ task[1].completedAt THEN "complete" ELSE "none"
        ELSE IF task # <<>> /\ ~task[1].completedAt THEN "uncomplete" ELSE "none"

\* todo.py 149-171: the completion call an update makes, decided from the cache.
CompletionCall(tasks, uid, status) ==
    LET task == FindTask(tasks, uid)
    IN  IF status = "completed"
        THEN IF task # <<>> /\ ~task[1].completedAt THEN "complete" ELSE "none"
        ELSE IF task # <<>> /\ task[1].completedAt THEN "uncomplete" ELSE "none"

\* A create or a delete is between two of its REST calls.
Busy(o) == o.pc \in {"tag", "post", "put"}

\* What a task list says of uid when an update is called.
Seen(tasks, uid) ==
    IF \A i \in DOMAIN tasks : tasks[i].id # uid THEN "absent"
    ELSE IF \E i \in DOMAIN tasks : tasks[i].id = uid /\ tasks[i].completedAt
         THEN "done" ELSE "open"

\* The remote after a successful complete (v = TRUE) or uncomplete of uid.
SetCompleted(tasks, uid, v) ==
    [i \in DOMAIN tasks |->
        IF tasks[i].id = uid THEN [tasks[i] EXCEPT !.completedAt = v] ELSE tasks[i]]

\* async_update_todo_item up to the PUT: the completion POST, if one is due.
\* `result` is what that POST meets: a status, or a network error raised
\* out of the method.
UpdateItem(uid, status, result) ==
    /\ listeners
    /\ upd.pc # "put"
    /\ ~Busy(entityOp)
    /\ uid \in 1..(MaxTasks + 1)
    /\ status \in Statuses
    /\ result \in HttpResults
    /\ LET c == CompletionCall(data, uid, status)
       IN  /\ c = "none" => result = "200"
           /\ calls' = IF c = "none" THEN <<>> ELSE <<[op |-> c, uid |-> uid]>>
           /\ remote' = IF c # "none" /\ result = "200"
                        THEN SetCompleted(remote, uid, c = "complete")
                        ELSE remote
           /\ upd' = [pc |-> IF result = "error" THEN "raised" ELSE "put",
                      uid |-> uid, status |-> status, seen |-> Seen(data, uid),
                      onRemote |-> Seen(remote, uid)]
    /\ entityOp' = NoOp
    /\ UNCHANGED <<selected_projects, data, hasData, tags, response, last_exception,
                   setup, fetch, timer, listeners>>
    /\ UNCHANGED <<chanVars, sdVars, remoteTags>>
    /\ UNCHANGED flowVars

\* As UpdatePut, asking the coordinator for a refresh after the PUT.
UpdatePutRefreshes(result) ==
    /\ upd.pc = "put"
    /\ result \in HttpResults
    /\ calls' = Append(calls, [op |-> "put", uid |-> upd.uid])
    /\ upd' = [upd EXCEPT !.pc = IF result = "200" THEN "done" ELSE "raised"]
    /\ StartOrJoin("channel")
    /\ UNCHANGED <<selected_projects, data, hasData, tags, response, remote,
                   last_exception, setup, listeners>>
    /\ UNCHANGED <<chanVars, sdVars, remoteTags, entityOp>>
    /\ UNCHANGED flowVars

\* todo.py 173-177: the field update; anything but 200 raises.
UpdatePut(result) ==
    /\ upd.pc = "put"
    /\ result \in HttpResults
    /\ calls' = Append(calls, [op |-> "put", uid |-> upd.uid])
    /\ upd' = [upd EXCEPT !.pc = IF result = "200" THEN "done" ELSE "raised"]
    /\ UNCHANGED <<coordVars, chanVars, sdVars, remoteTags, entityOp>>
    /\ UNCHANGED flowVars

\* ------------------------------------------------------------- create
\* str.lower() on the names in use.
Lower(s) ==
    CASE s = "Ada" -> "ada"
      [] s = "ADA" -> "ada"
      [] s = "Bob" -> "bob"
      [] OTHER -> s

\* The display names an acting user can have, each given by whether the
\* string is empty (or there is no user) and by what str.split() makes of it.
UserNames ==
    {[empty |-> TRUE, tokens |-> <<>>],
     [empty |-> FALSE, tokens |-> <<>>],
     [empty |-> FALSE, tokens |-> <<"Ada", "Lovelace">>],
     [empty |-> FALSE, tokens |-> <<"ada">>]}

\* The uids update, delete and move are called with once all entity
\* operations are in play: the first task's and one no task has.
EntityUids == {1, MaxTasks + 1}

\* The tag sets the remote can hold at setup: no two names equal under lower().
TagSets ==
    {<<>>, <<[id |-> 1, name |-> "ADA"]>>, <<[id |-> 1, name |-> "bob"]>>}

CreateResults == {"201", "500", "error"}

\* As FindTag, comparing the names as they are.
FindTagCaseSensitive(ts, user_name) ==
    LET idx == {i \in DOMAIN ts : ts[i].name = user_name}
    IN  IF idx = {} THEN 0
        ELSE ts[CHOOSE i \in idx : \A j \in idx : i <= j].id

\* todo.py 200-205: the id of the first cached tag whose name equals
\* user_name under lower(), 0 for None.
FindTag(ts, user_name) ==
    LET idx == {i \in DOMAIN ts : Lower(ts[i].name) = Lower(user_name)}
    IN  IF idx = {} THEN 0
        ELSE ts[CHOOSE i \in idx : \A j \in idx : i <= j].id

\* todo.py 101-116 and 200-205: async_create_todo_item up to its first REST
\* call: the first token of the display name and the lookup in the cache.
CreateStart(name) ==
    /\ listeners
    /\ upd.pc # "put"
    /\ ~Busy(entityOp)
    /\ selected_projects # {}
    /\ name \in UserNames
    /\ LET user_name == IF name.empty \/ name.tokens = <<>> THEN ""
                        ELSE Head(name.tokens)
           found == IF user_name = "" THEN 0 ELSE FindTag(tags, user_name)
       IN  entityOp' = [NoOp EXCEPT
                !.name = "create",
                !.display = <<name>>,
                !.user = user_name,
                !.seen = tags,
                !.tag = found,
                !.pc = IF ~name.empty /\ name.tokens = <<>> THEN "raised"
                       ELSE IF user_name # "" /\ found = 0 THEN "tag"
                       ELSE "post"]
    /\ upd' = NoUpdate
    /\ calls' = <<>>
    /\ UNCHANGED <<coordVars, chanVars, sdVars, remoteTags>>
    /\ UNCHANGED flowVars

\* todo.py 207-221: POST /tags; 201 gives the new tag's id, another status
\* gives None, a network error is raised out of create.
CreateTag(result) ==
    /\ entityOp.name = "create"
    /\ entityOp.pc = "tag"
    /\ result \in CreateResults
    /\ result = "201" => Len(remoteTags) < MaxTags
    /\ calls' = Append(calls, [op |-> "tag", uid |-> 0])
    /\ remoteTags' = IF result = "201"
                     THEN Append(remoteTags, [id |-> Len(remoteTags) + 1,
                                              name |-> entityOp.user])
                     ELSE remoteTags
    /\ entityOp' = [entityOp EXCEPT
            !.tagName = entityOp.user,
            !.tagResult = result,
            !.tag = IF result = "201" THEN Len(remoteTags) + 1 ELSE 0,
            !.pc = IF result = "error" THEN "raised" ELSE "post"]
    /\ UNCHANGED <<coordVars, chanVars, sdVars, upd>>
    /\ UNCHANGED flowVars

\* todo.py 118-135: POST /tasks with the tag id, if any; anything but 201
\* raises.  The task the remote creates is not followed further.
CreatePost(result) ==
    /\ entityOp.name = "create"
    /\ entityOp.pc = "post"
    /\ result \in CreateResults
    /\ calls' = Append(calls, [op |-> "task", uid |-> 0])
    /\ entityOp' = [entityOp EXCEPT
            !.tagIds = IF entityOp.tag # 0 THEN <<entityOp.tag>> ELSE <<>>,
            !.pc = IF result = "201" THEN "done" ELSE "raised"]
    /\ UNCHANGED <<coordVars, chanVars, sdVars, upd, remoteTags>>
    /\ UNCHANGED flowVars

\* ------------------------------------------------------------- delete, move
\* The batches a delete is called with.
DeleteBatches ==
    {<<>>} \cup {<<u>> : u \in EntityUids} \cup {<<1, MaxTasks + 1>>, <<MaxTasks + 1, 1>>}

\* todo.py 179-182: async_delete_todo_items is called; the loop is entered.
DeleteStart(uids) ==
    /\ listeners
    /\ upd.pc # "put"
    /\ ~Busy(entityOp)
    /\ uids \in DeleteBatches
    /\ entityOp' = [NoOp EXCEPT !.name = "delete", !.uids = uids,
                                !.pc = IF uids = <<>> THEN "done" ELSE "put"]
    /\ upd' = NoUpdate
    /\ calls' = <<>>
    /\ UNCHANGED <<coordVars, chanVars, sdVars, remoteTags>>
    /\ UNCHANGED flowVars

\* todo.py 183-189: the PUT of {"deletedAt": "now"} for the next uid; a status
\* other than 200 is logged, a network error is raised out of the loop.
DeletePut(result) ==
    /\ entityOp.name = "delete"
    /\ entityOp.pc = "put"
    /\ result \in HttpResults
    /\ calls' = Append(calls, [op |-> "delete", uid |-> entityOp.uids[Len(calls) + 1]])
    /\ entityOp' = [entityOp EXCEPT
            !.pc = IF result = "error" THEN "raised"
                   ELSE IF Len(calls) + 1 = Len(entityOp.uids) THEN "done"
                   ELSE "put"]
    /\ UNCHANGED <<coordVars, chanVars, sdVars, upd, remoteTags>>
    /\ UNCHANGED flowVars

\* As MoveItem, sending the new position to the remote.
MoveItemAsPut(uid, previous_uid) ==
    /\ listeners
    /\ upd.pc # "put"
    /\ ~Busy(entityOp)
    /\ entityOp' = [NoOp EXCEPT !.name = "move", !.uids = <<uid, previous_uid>>,
                                !.pc = "done"]
    /\ upd' = NoUpdate
    /\ calls' = <<[op |-> "put", uid |-> uid]>>
    /\ UNCHANGED <<coordVars, chanVars, sdVars, remoteTags>>
    /\ UNCHANGED flowVars

\* todo.py 191-196: async_move_todo_item is `pass`; previous_uid 0 is None.
MoveItem(uid, previous_uid) ==
    /\ listeners
    /\ upd.pc # "put"
    /\ ~Busy(entityOp)
    /\ entityOp' = [NoOp EXCEPT !.name = "move", !.uids = <<uid, previous_uid>>,
                                !.pc = "done"]
    /\ upd' = NoUpdate
    /\ calls' = <<>>
    /\ UNCHANGED <<coordVars, chanVars, sdVars, remoteTags>>
    /\ UNCHANGED flowVars

\* ------------------------------------------------------------- coordinator
Next ==
    \/ StartRefresh
    \/ \E resp \in Responses : UpdateDataOk(resp)
    \/ \E err \in {"UpdateFailed", "TimeoutError"} : UpdateDataFail(err)
    \/ TimerTick
    \/ AddEntities
    \/ WsStart
    \/ WsConnectOk
    \/ WsConnectFail
    \/ \E msg \in Messages : OnMessage(msg)
    \/ WsRecvError
    \/ WsPeerClose
    \/ WsBackoffDone
    \/ ShutdownCall
    \/ ShutdownReturn

Spec == Init /\ [][Next]_vars

\* asyncio.sleep(5) returns: the event loop resumes the sleeping task.
LiveSpec == Spec /\ WF_vars(WsBackoffDone)

\* ------------------------------------------------------------- entity in use
\* The integration as set up: the first refresh has published the remote's
\* tasks, the entities are subscribed, and the push endpoint is unreachable
\* (the channel loop sleeps in its backoff).
InitFacade ==
    /\ selected_projects \in Selections
    /\ remote \in RemoteStates
    /\ response = remote
    /\ data = Filter(remote, selected_projects)
    /\ hasData = TRUE
    /\ last_exception = "None"
    /\ setup = "ready"
    /\ fetch = "none"
    /\ timer = "armed"
    /\ listeners = TRUE
    /\ chan = "backoff"
    /\ ws = "None"
    /\ msgs = 0
    /\ reqs = 0
    /\ sd = "idle"
    /\ sdCalls = 0
    /\ sdFrom = "none"
    /\ sdDone = FALSE
    /\ upd = NoUpdate
    /\ calls = <<>>
    /\ tags = <<>>
    /\ remoteTags = <<>>
    /\ entityOp = NoOp
    /\ projects = <<>>
    /\ stack = <<>>
    /\ project_options = <<>>
    /\ flow = "idle"

NextFacade ==
    \/ \E uid \in 1..(MaxTasks + 1), status \in Statuses, result \in HttpResults :
            UpdateItem(uid, status, result)
    \/ \E result \in HttpResults : UpdatePut(result)
    \/ TimerTick
    \/ UpdateDataOk(remote)
    \/ \E err \in {"UpdateFailed", "TimeoutError"} : UpdateDataFail(err)

FacadeSpec == InitFacade /\ [][NextFacade]_vars

\* ------------------------------------------------------------- all mutations
\* The task lists the remote holds when the entities are set up.
EntityRemotes == {s \in RemoteStates : Len(s) <= 1}

\* As InitFacade, with tags on the remote and in the first snapshot.
InitEntity ==
    /\ selected_projects \in Selections \ {{}}
    /\ remote \in EntityRemotes
    /\ response = remote
    /\ data = Filter(remote, selected_projects)
    /\ hasData = TRUE
    /\ last_exception = "None"
    /\ setup = "ready"
    /\ fetch = "none"
    /\ timer = "armed"
    /\ listeners = TRUE
    /\ chan = "backoff"
    /\ ws = "None"
    /\ msgs = 0
    /\ reqs = 0
    /\ sd = "idle"
    /\ sdCalls = 0
    /\ sdFrom = "none"
    /\ sdDone = FALSE
    /\ upd = NoUpdate
    /\ calls = <<>>
    /\ remoteTags \in TagSets
    /\ tags = remoteTags
    /\ entityOp = NoOp
    /\ projects = <<>>
    /\ stack = <<>>
    /\ project_options = <<>>
    /\ flow = "idle"

NextEntity ==
    \/ \E name \in UserNames : CreateStart(name)
    \/ \E result \in CreateResults : CreateTag(result)
    \/ \E result \in CreateResults : CreatePost(result)
    \/ \E uids \in DeleteBatches : DeleteStart(uids)
    \/ \E result \in HttpResults : DeletePut(result)
    \/ \E uid \in EntityUids, previous_uid \in {0, 1} :
            MoveItem(uid, previous_uid)
    \/ \E uid \in EntityUids, status \in Statuses, result \in HttpResults :
            UpdateItem(uid, status, result)
    \/ \E result \in HttpResults : UpdatePut(result)
    \/ TimerTick
    \/ UpdateDataOk(remote)
    \/ UpdateDataFail("UpdateFailed")

EntitySpec == InitEntity /\ [][NextEntity]_vars

\* ------------------------------------------------------------- setup flow
\* parentId None.
NoParent == 0
\* The names projects have, in the order sorted() puts them.
ProjectNames == <<"a", "b">>

\* An entry of self._projects; parentId MaxProjects + 1 is the id of no entry.
ProjectEntries ==
    [id : 1..MaxProjects, parentId : 0..(MaxProjects + 1),
     name : {ProjectNames[i] : i \in DOMAIN ProjectNames}, deletedAt : BOOLEAN]

\* The lists /api/data can have answered with; ids can repeat in a list.
ProjectLists == UNION {[1..n -> ProjectEntries] : n \in 0..MaxProjects}

\* The depth only a recursion that does not end reaches: an activation for
\* the root and one for each entry of the longest chain of distinct entries.
RecursionLimit == MaxProjects + 1

\* config_flow.py 102: the entries under parent_id that are not deleted.
Children(parent_id) ==
    SelectSeq(projects, LAMBDA p : p.parentId = parent_id /\ ~p.deletedAt)

\* config_flow.py 103: sorted(filtered, key=name), a stable sort.
SortedByName(filtered) ==
    SelectSeq(filtered, LAMBDA p : p.name = ProjectNames[1])
        \o SelectSeq(filtered, LAMBDA p : p.name = ProjectNames[2])

\* An activation of build_hierarchy(projects, parent_id, indent) at its for.
Frame(parent_id, indent) ==
    [parent_id |-> parent_id, indent |-> indent,
     rest |-> SortedByName(Children(parent_id))]

\* config_flow.py 93-108: async_step_select_projects has called
\* build_hierarchy(self._projects); nothing else of the integration exists yet.
InitFlow ==
    /\ projects \in ProjectLists
    /\ stack = <<Frame(NoParent, 0)>>
    /\ project_options = <<>>
    /\ flow = "building"
    /\ selected_projects = {}
    /\ data = <<>>
    /\ hasData = FALSE
    /\ response = <<>>
    /\ remote = <<>>
    /\ last_exception = "None"
    /\ setup = "constructed"
    /\ fetch = "none"
    /\ timer = "off"
    /\ listeners = FALSE
    /\ chan = "created"
    /\ ws = "None"
    /\ msgs = 0
    /\ reqs = 0
    /\ sd = "idle"
    /\ sdCalls = 0
    /\ sdFrom = "none"
    /\ sdDone = FALSE
    /\ upd = NoUpdate
    /\ calls = <<>>
    /\ tags = <<>>
    /\ remoteTags = <<>>
    /\ entityOp = NoOp

\* config_flow.py 103-106: the next project of the innermost for: its label
\* is stored under its id and build_hierarchy is called for its children.
\* A call beyond the recursion limit raises RecursionError out of the step.
BuildVisit ==
    /\ flow = "building"
    /\ stack # <<>>
    /\ stack[Len(stack)].rest # <<>>
    /\ LET top == stack[Len(stack)]
           project == Head(top.rest)
       IN  /\ project_options' =
                 [k \in DOMAIN project_options \cup {project.id} |->
                     IF k = project.id
                     THEN [indent |-> top.indent, name |-> project.name]
                     ELSE project_options[k]]
           /\ IF Len(stack) > RecursionLimit
              THEN /\ flow' = "RecursionError"
                   /\ stack' = <<>>
              ELSE /\ flow' = flow
                   /\ stack' = [stack EXCEPT ![Len(stack)].rest = Tail(top.rest)]
                                  \o <<Frame(project.id, top.indent + 1)>>
    /\ UNCHANGED <<coordVars, chanVars, sdVars, facadeVars, projects>>

\* The innermost for is over: build_hierarchy returns; the outermost return
\* lets the step go on to show the form.
BuildReturn ==
    /\ flow = "building"
    /\ stack # <<>>
    /\ stack[Len(stack)].rest = <<>>
    /\ stack' = SubSeq(stack, 1, Len(stack) - 1)
    /\ flow' = IF Len(stack) = 1 THEN "form" ELSE "building"
    /\ UNCHANGED <<coordVars, chanVars, sdVars, facadeVars, projects, project_options>>

NextFlow ==
    \/ BuildVisit
    \/ BuildReturn

FlowSpec == InitFlow /\ [][NextFlow]_vars

\* ------------------------------------------------------------- properties
\* d is r with exactly the tasks outside sel removed, in r's order.
ExactlySelected(d, r, sel) ==
    /\ \A i \in DOMAIN d : d[i].projectId \in sel
    /\ Len(d) = Cardinality({j \in DOMAIN r : r[j].projectId \in sel})
    /\ \E f \in [DOMAIN d -> DOMAIN r] :
          /\ \A i \in DOMAIN d : d[i] = r[f[i]]
          /\ \A i, k \in DOMAIN d : i < k => f[i] < f[k]

\* C2: after every successful refresh the cached tasks are exactly the tasks
\* of the remote response whose projectId is selected (none added, none
\* dropped, order kept), and no cached task ever has a projectId outside the
\* selection.
CacheIsSelectedTasks ==
    /\ \A i \in DOMAIN data : data[i].projectId \in selected_projects
    /\ hasData => ExactlySelected(data, response, selected_projects)

\* A response of two tasks whose first was dropped and whose second was kept.
CacheIsSelectedTasksWitness ==
    /\ hasData
    /\ Len(response) = 2
    /\ Len(data) = 1
    /\ data[1].id = 2

\* C3: a refresh that fails (UpdateFailed or the timeout) leaves the cached
\* snapshot as it was and leaves the interval timer scheduled for the
\* subscribed entities, so that the next tick starts a new fetch.
RefreshFailureKeepsCache ==
    /\ [][(fetch # "none" /\ fetch' = "none" /\ last_exception' # "None")
            => /\ data' = data
               /\ hasData' = hasData
               /\ listeners => timer' = "armed"]_vars
    /\ []((last_exception # "None" /\ fetch = "none" /\ listeners)
            => ENABLED TimerTick)

\* After a failed refresh, with a non-empty cache kept, a tick has started a
\* new fetch.
RefreshFailureKeepsCacheWitness ==
    /\ last_exception # "None"
    /\ fetch = "timer"
    /\ Len(data) > 0

\* C4: once async_shutdown has returned, no timer-triggered fetch is started.
ShutdownStopsTimer ==
    [][sdDone => ~(fetch # "timer" /\ fetch' = "timer")]_vars

\* C5: async_shutdown does not return while a refresh is in flight.
ShutdownWaitsForRefresh ==
    [][(sd # "returned" /\ sd' = "returned") => fetch' = "none"]_vars

\* C6: async_shutdown, called in any channel state, ends the channel loop,
\* leaves no websocket open and returns without raising; after it has
\* returned the loop makes no connect attempt and no refresh request.
ShutdownStopsChannel ==
    /\ [](sd # "raised")
    /\ [](sdDone => (chan = "cancelled" /\ ws # "open"))
    /\ [][sdDone => reqs' = reqs]_vars

\* Shutdown has returned after cancelling the loop while it awaited a refresh
\* it had requested on an open connection.
ShutdownStopsChannelWitness ==
    /\ sd = "returned"
    /\ sdFrom = "awaiting"
    /\ ws = "closed"

\* C7: the channel loop runs (connects, receives, backs off) only once the
\* initial refresh has succeeded.
ChannelAfterFirstRefresh ==
    chan \in {"connecting", "connected", "awaiting", "backoff"} => setup = "ready"

\* C8: the loop starts a connect attempt, other than its first, only out of
\* the backoff sleep.
BackoffBeforeReconnect ==
    [][(chan # "connecting" /\ chan' = "connecting")
            => chan \in {"created", "backoff"}]_vars

\* C9: every message consumed makes exactly one refresh request, whatever
\* its content, and the loop stays on its open connection after it, also
\* when the refresh it requested fails.
OneRequestPerMessage ==
    /\ [](reqs = msgs)
    /\ [][msgs' # msgs => (reqs' = reqs + 1 /\ ws' = "open"
                            /\ chan' \in {"awaiting", "connected"})]_vars
    /\ [][chan = "awaiting" => chan' \in {"awaiting", "connected", "cancelled"}]_vars

\* Two messages were consumed on one connection although a refresh failed.
OneRequestPerMessageWitness ==
    /\ msgs = 2
    /\ reqs = 2
    /\ chan = "connected"
    /\ last_exception # "None"

CountOp(op) == Cardinality({i \in DOMAIN calls : calls[i].op = op})

\* C10: an update to status completed issues one complete call if the cached
\* task has no completedAt and none if it has; an update to needs_action
\* issues one uncomplete call if the cached task has completedAt and none
\* otherwise; a task absent from the cache gets neither; and the completion
\* call comes before the PUT of the same update.
CompletionTransition ==
    upd.pc # "idle" =>
        /\ CountOp("complete") =
              IF upd.status = "completed" /\ upd.seen = "open" THEN 1 ELSE 0
        /\ CountOp("uncomplete") =
              IF upd.status = "needs_action" /\ upd.seen = "done" THEN 1 ELSE 0
        /\ \A i, j \in DOMAIN calls :
              (calls[i].op = "put" /\ calls[j].op # "put") => j < i
        /\ \A i \in DOMAIN calls : calls[i].uid = upd.uid

\* An open task was updated to completed: complete, then the PUT.
CompletionTransitionWitness ==
    /\ upd.pc = "done"
    /\ upd.status = "completed"
    /\ upd.seen = "open"
    /\ calls = <<[op |-> "complete", uid |-> upd.uid], [op |-> "put", uid |-> upd.uid]>>

\* C17: every update that has ended, normally or by raising, has issued
\* exactly one field-update PUT.
AlwaysOnePut ==
    upd.pc \in {"done", "raised"} => CountOp("put") = 1

\* C18 as stated: no completion call is redundant on the remote: complete is
\* never issued for a task the remote holds completed, uncomplete never for
\* one it does not hold completed.
NoRedundantCallOnRemote ==
    upd.pc # "idle" =>
        \A i \in DOMAIN calls :
            /\ calls[i].op = "complete" => upd.onRemote # "done"
            /\ calls[i].op = "uncomplete" => upd.onRemote = "done"

\* C18 as amended: no completion call is redundant with respect to the cached
\* snapshot the update reads: complete is issued only for a task the cache
\* shows without completedAt, uncomplete only for one it shows with it.
NoRedundantCallPerCache ==
    upd.pc # "idle" =>
        \A i \in DOMAIN calls :
            /\ calls[i].op = "complete" => upd.seen = "open"
            /\ calls[i].op = "uncomplete" => upd.seen = "done"

\* A complete was issued from a stale cache: open there, completed remotely.
NoRedundantCallPerCacheWitness ==
    /\ upd.pc = "done"
    /\ upd.seen = "open"
    /\ upd.onRemote = "done"
    /\ CountOp("complete") = 1

\* C11: a delete that has ended was not raised to the caller and issued one
\* soft-delete call per uid of its batch, in the batch's order, whatever the
\* calls met.
DeleteBestEffort ==
    (entityOp.name = "delete" /\ entityOp.pc \in {"done", "raised"}) =>
        /\ entityOp.pc = "done"
        /\ Len(calls) = Len(entityOp.uids)
        /\ \A i \in DOMAIN calls :
              calls[i] = [op |-> "delete", uid |-> entityOp.uids[i]]

\* The first cached tag a create saw whose name equals its user's first
\* token under lower(), as a set of at most one index.
CachedMatch ==
    LET idx == {i \in DOMAIN entityOp.seen :
                    Lower(entityOp.seen[i].name) = Lower(entityOp.user)}
    IN  {i \in idx : \A j \in idx : i <= j}

\* C12: a create by a user with a first name token looks that token up in the
\* cached tags under lower(): on a hit it issues no tag-creation call and
\* posts the task with the cached tag's id; on a miss it issues exactly one
\* tag-creation call, named by the first token, and posts the task with the
\* id that call returned.
TagResolution ==
    (entityOp.name = "create" /\ entityOp.user # "") =>
        /\ entityOp.user = Head(entityOp.display[1].tokens)
        /\ IF CachedMatch # {}
           THEN /\ CountOp("tag") = 0
                /\ entityOp.pc # "tag"
                /\ CountOp("task") = 1 =>
                      \A i \in CachedMatch : entityOp.tagIds = <<entityOp.seen[i].id>>
           ELSE /\ CountOp("tag") = IF entityOp.pc = "tag" THEN 0 ELSE 1
                /\ CountOp("tag") = 1 => entityOp.tagName = entityOp.user
                /\ (CountOp("task") = 1 /\ entityOp.tagResult = "201") =>
                      /\ entityOp.tagIds = <<entityOp.tag>>
                      /\ \E i \in DOMAIN remoteTags :
                            remoteTags[i] = [id |-> entityOp.tag, name |-> entityOp.user]
        /\ \A i, j \in DOMAIN calls :
              (calls[i].op = "tag" /\ calls[j].op = "task") => i < j

\* "Ada Lovelace" created a task while "ADA" was cached: its id was reused.
TagResolutionWitness ==
    /\ entityOp.name = "create"
    /\ entityOp.pc = "done"
    /\ entityOp.user = "Ada"
    /\ entityOp.seen = <<[id |-> 1, name |-> "ADA"]>>
    /\ entityOp.tagIds = <<1>>
    /\ calls = <<[op |-> "task", uid |-> 0]>>

\* C13: no two tags of the remote have names equal under lower().
TagNamesUnique ==
    \A i, j \in DOMAIN remoteTags :
        Lower(remoteTags[i].name) = Lower(remoteTags[j].name) => i = j

\* C14: a create whose tag-creation call failed, by status or by network
\* error, still posts the task, with an empty tagIds list.
TagFailureNeverBlocks ==
    (/\ entityOp.name = "create"
     /\ entityOp.tagResult \in {"500", "error"}
     /\ entityOp.pc \in {"done", "raised"}) =>
        /\ CountOp("task") = 1
        /\ entityOp.tagIds = <<>>

\* C15: a move, of any uid after any previous_uid, returns, issues no REST
\* call and leaves the cached snapshot and the remote as they were.
MoveIsNoOp ==
    [][(entityOp'.name = "move" /\ entityOp' # entityOp) =>
          /\ entityOp'.pc = "done"
          /\ calls' = <<>>
          /\ data' = data /\ tags' = tags /\ hasData' = hasData
          /\ remote' = remote /\ remoteTags' = remoteTags
          /\ fetch' = fetch /\ timer' = timer]_vars

\* A task the cache does not hold was moved while the cache held a task.
MoveIsNoOpWitness ==
    /\ entityOp.name = "move"
    /\ entityOp.pc = "done"
    /\ entityOp.uids = <<MaxTasks + 1, 1>>
    /\ calls = <<>>
    /\ data # <<>>

\* C20: a step of a create, update, delete or move leaves the cached snapshot
\* as it was and requests no refresh: the snapshot changes only in the
\* refresh the timer or the channel started.
MutationsLeaveCache ==
    [][(upd' # upd \/ entityOp' # entityOp \/ calls' # calls) =>
          /\ data' = data /\ tags' = tags /\ hasData' = hasData
          /\ response' = response /\ last_exception' = last_exception
          /\ fetch' = fetch /\ timer' = timer /\ reqs' = reqs]_vars

\* A create has added a tag on the remote that the cache does not hold.
MutationsLeaveCacheWitness ==
    /\ entityOp.name = "create"
    /\ entityOp.pc = "done"
    /\ entityOp.tagResult = "201"
    /\ tags # remoteTags
    /\ fetch = "none"

\* C16: a connect failure or receive error leaves the cached snapshot and the
\* periodic timer as they were; the channel task ends only in a step of
\* async_shutdown; and a channel in its backoff connects again, unless it is
\* shut down first, however many failures came before.
ChannelNeverFatal ==
    /\ [][(chan' = "backoff" /\ chan # "backoff") =>
             /\ data' = data /\ tags' = tags /\ hasData' = hasData
             /\ last_exception' = last_exception
             /\ timer' = timer /\ fetch' = fetch]_vars
    /\ [][(chan' = "cancelled" /\ chan # "cancelled") =>
             (sd' = "awaiting_task" /\ sdCalls' = sdCalls + 1)]_vars
    /\ (chan = "backoff" ~> chan \in {"connecting", "cancelled"})

\* The channel was connected, took a message and then failed, while the
\* snapshot is published and the timer armed.
ChannelNeverFatalWitness ==
    /\ chan = "backoff"
    /\ msgs > 0
    /\ hasData
    /\ timer = "armed"
    /\ sdCalls = 0

\* C19: flattening the project list never runs into the recursion limit:
\* build_hierarchy returns for every list, whatever its parentId references
\* and ids are.
HierarchyTerminates ==
    flow # "RecursionError"

=============================================================================
